---- MODULE Spec2Model ----
(***************************************************************************)
(* U.S. Macro Dashboard (src/app.py): the indicator retrieval and          *)
(* transform pipeline.                                                     *)
(*                                                                         *)
(*   fred_get_series   fetch of one series, behind st.cache_data(ttl=60)   *)
(*   compute_transform the transform of a fetched series                   *)
(*   latest_value, pct_change_latest   the two query helpers               *)
(*   card, the chart loop              one script run over the registry    *)
(*                                                                         *)
(* Two specifications share the pure operators:                            *)
(*   Spec      the script runs of the dashboard: clock, fetch cache,       *)
(*             cache clear, cards and charts;                              *)
(*   SpecPure  one fetch-transform-query pipeline applied to a response    *)
(*             drawn from a bounded family (long enough for the 12-sample  *)
(*             lookback).                                                  *)
(***************************************************************************)
EXTENDS Integers, Sequences, FiniteSets, TLC

VARIABLES
    now,        \* wall clock, seconds
    runs,       \* number of script runs started
    lookback_years, \* the sidebar slider's value in this script run
    cache,      \* st.cache_data store of fred_get_series: key -> entry
    last,       \* per key, the last call that went to the network (history)
    pc,         \* position of the script run / of the pipeline
    todo,       \* names still to be handled by the running loop
    cardsDone,  \* names whose card() step ran in this script run
    chartsDone, \* names whose chart step ran in this script run
    sel,        \* the multiselect's value in this script run
    exc,        \* the exception that ended the last step ("none" if none)
    call,       \* the last fred_get_series call: who, when, hit or miss
    prev,       \* last[key] as it was just before that call
    resp,       \* the remote response of the last network request
    raw,        \* local `raw`: the value fred_get_series returned
    srt,        \* local `s` of compute_transform after sort_values
    series,     \* local `series`: the value compute_transform returned
    kind,       \* the transform name passed to compute_transform
    shown,      \* the chart-window slice of `series` (line 222)
    chg         \* the value pct_change_latest returned

vars == <<now, runs, lookback_years, cache, last, pc, todo, cardsDone,
          chartsDone, sel, exc, call, prev, resp, raw, srt, series, kind, shown,
          chg>>

-----------------------------------------------------------------------------
(* Bounds of the model *)

MaxObs == 2         \* longest response of the short family
MaxDate == 2        \* dates of the short family are 1..MaxDate
MinLong == 10       \* shortest response of the long family
MaxLong == 14       \* longest response of the long family
MaxPeriods == 2     \* pct_change_latest is asked for periods 1..MaxPeriods
FirstIndicator == 6 \* first registry entry the script runs iterate
NumIndicators == 2  \* number of registry entries the script runs iterate
MaxAppObs == 2      \* longest response served to a script run
MaxRuns == 2        \* script runs per behaviour
TickStep == 30      \* seconds per clock step
MaxTime == 60       \* the clock stops here
Today == 4          \* pd.Timestamp.today(), in years on the scale of the dates

(* Program constants *)

YoYLag == 12        \* pct_change(12)
TTL == 60           \* st.cache_data(ttl=60)
HttpOk == 200       \* r.status_code != 200
SliderMin == 2      \* st.slider("Chart lookback (years)", 2, 25, 5)
SliderMax == 25

-----------------------------------------------------------------------------
(* Floating point values.  A float is finite (an exact fraction n/d, d > 0,*)
(* in lowest terms), NaN, +inf or -inf.                                    *)

RECURSIVE GCD(_, _)
GCD(a, b) == IF b = 0 THEN a ELSE GCD(b, a % b)

Abs(x) == IF x < 0 THEN -x ELSE x

Fin(n, d) ==
    LET s == IF d < 0 THEN -1 ELSE 1
        g == GCD(Abs(n), Abs(d))
    IN  [k |-> "fin", n |-> (s * n) \div g, d |-> (s * d) \div g]

NaN == [k |-> "nan", n |-> 0, d |-> 1]
PosInf == [k |-> "inf", n |-> 1, d |-> 1]
NegInf == [k |-> "inf", n |-> -1, d |-> 1]

IsNaN(x) == x.k = "nan"
IsFinite(x) == x.k = "fin"

\* IEEE-754 division as numpy performs it: x/0 is +-inf, 0/0 is NaN.
FDiv(a, b) ==
    IF IsNaN(a) \/ IsNaN(b) THEN NaN
    ELSE IF a.k = "inf" /\ b.k = "inf" THEN NaN
    ELSE IF a.k = "inf"
         THEN IF b.n < 0 THEN [a EXCEPT !.n = -a.n] ELSE a
    ELSE IF b.k = "inf" THEN Fin(0, 1)
    ELSE IF b.n = 0
         THEN IF a.n = 0 THEN NaN ELSE IF a.n > 0 THEN PosInf ELSE NegInf
    ELSE Fin(a.n * b.d, a.d * b.n)

FSub(a, b) ==
    IF IsNaN(a) \/ IsNaN(b) THEN NaN
    ELSE IF a.k = "inf" /\ b.k = "inf"
         THEN IF a.n = b.n THEN NaN ELSE a
    ELSE IF a.k = "inf" THEN a
    ELSE IF b.k = "inf" THEN [b EXCEPT !.n = -b.n]
    ELSE Fin(a.n * b.d - b.n * a.d, a.d * b.d)

FMul(a, b) ==
    IF IsNaN(a) \/ IsNaN(b) THEN NaN
    ELSE IF a.k = "inf" \/ b.k = "inf"
         THEN IF a.n = 0 \/ b.n = 0 THEN NaN
              ELSE IF (a.n > 0) = (b.n > 0) THEN PosInf ELSE NegInf
    ELSE Fin(a.n * b.n, a.d * b.d)

-----------------------------------------------------------------------------
(* Values of the program *)

\* Optional[pd.DataFrame]: None, or a frame of rows (date, value, last_updated)
None == [isNone |-> TRUE, rows |-> <<>>]
DF(rows) == [isNone |-> FALSE, rows |-> rows]

Row(d, v, u) == [date |-> d, value |-> v, last_updated |-> u]

\* df.empty
Empty(df) == df.rows = <<>>

\* The values a FRED record carries as text; "." marks a missing observation.
Tokens == {"0", "100", "110", "."}

\* Variant of to_numeric: a missing observation read as zero.
to_numeric_zero(tok) ==
    CASE tok = "100" -> Fin(100, 1)
      [] tok = "110" -> Fin(110, 1)
      [] OTHER -> Fin(0, 1)

\* pd.to_numeric(errors="coerce") on one cell: text that is no number is NaN.
to_numeric(tok) ==
    CASE tok = "0" -> Fin(0, 1)
      [] tok = "100" -> Fin(100, 1)
      [] tok = "110" -> Fin(110, 1)
      [] OTHER -> NaN

\* s.dropna(subset=["value"]): the rows whose value is not NaN, in order.
dropna(rows) == SelectSeq(rows, LAMBDA r : ~IsNaN(r.value))

-----------------------------------------------------------------------------
(* The remote observation API *)

\* One record of the "observations" array.
Obs(d, tok) == [date |-> d, value |-> tok]

RealtimeEnd == "2025-06-30"

\* What requests.get and r.json() can produce.
TimeoutResp ==
    [net |-> "timeout", status |-> 0, json |-> FALSE, observations |-> <<>>,
     realtime_end |-> ""]
ErrorResp ==
    [net |-> "ok", status |-> 500, json |-> FALSE, observations |-> <<>>,
     realtime_end |-> ""]
GarbledResp ==
    [net |-> "ok", status |-> HttpOk, json |-> FALSE, observations |-> <<>>,
     realtime_end |-> ""]
OkResp(body) ==
    [net |-> "ok", status |-> HttpOk, json |-> TRUE, observations |-> body,
     realtime_end |-> RealtimeEnd]

FailureResps == {TimeoutResp, ErrorResp, GarbledResp}

-----------------------------------------------------------------------------
(* fred_get_series, the function body (a cache miss) *)

\* Variant of parse_observations: the rows without a value are kept.
parse_observations_keep_all(body, last_updated) ==
    [i \in DOMAIN body |->
        Row(body[i].date, to_numeric(body[i].value), last_updated)]

\* Lines 87-92: the frame built from a non-empty observations array.
parse_observations(body, last_updated) ==
    dropna([i \in DOMAIN body |->
                Row(body[i].date, to_numeric(body[i].value), last_updated)])

\* Lines 79-92.  exc names the exception the call raises, "none" if it returns;
\* ret is the value returned.
fred_request(r) ==
    IF r.net = "timeout" THEN [exc |-> "Timeout", ret |-> None]
    ELSE IF r.status # HttpOk THEN [exc |-> "none", ret |-> None]
    ELSE IF ~r.json THEN [exc |-> "JSONDecodeError", ret |-> None]
    ELSE IF r.observations = <<>> THEN [exc |-> "none", ret |-> None]
    ELSE [exc |-> "none",
          ret |-> DF(parse_observations(r.observations, r.realtime_end))]

-----------------------------------------------------------------------------
(* compute_transform *)

RemoveAt(s, i) == SubSeq(s, 1, i - 1) \o SubSeq(s, i + 1, Len(s))

\* s.sort_values("date"): the default sort is not stable, so rows of equal
\* date may come out in any order.  The set of orders it can produce.
RECURSIVE sort_values(_)
sort_values(rows) ==
    IF rows = <<>> THEN {<<>>}
    ELSE LET first == {i \in DOMAIN rows :
                         \A j \in DOMAIN rows : rows[i].date <= rows[j].date}
         IN  UNION {{<<rows[i]>> \o rest : rest \in sort_values(RemoveAt(rows, i))}
                    : i \in first}

\* Variant of pct_change: the reference is the row dated `periods` earlier
\* (a calendar lookback), not the row `periods` positions earlier.
pct_change_by_date(s, periods) ==
    [t \in DOMAIN s |->
        [s[t] EXCEPT !.value =
            LET refs == {u \in DOMAIN s : s[u].date = s[t].date - periods}
            IN  IF refs = {} THEN NaN
                ELSE FMul(FSub(FDiv(s[t].value, s[CHOOSE u \in refs : TRUE].value),
                               Fin(1, 1)),
                          Fin(100, 1))]]

\* Series.pct_change(periods) * 100
pct_change(s, periods) ==
    [t \in DOMAIN s |->
        [s[t] EXCEPT !.value =
            IF t <= periods THEN NaN
            ELSE FMul(FSub(FDiv(s[t].value, s[t - periods].value), Fin(1, 1)),
                      Fin(100, 1))]]

\* Series.diff(1) / 1000.0
diff_k(s) ==
    [t \in DOMAIN s |->
        [s[t] EXCEPT !.value =
            IF t <= 1 THEN NaN
            ELSE FDiv(FSub(s[t].value, s[t - 1].value), Fin(1000, 1))]]

scale(s, by) ==
    [t \in DOMAIN s |-> [s[t] EXCEPT !.value = FDiv(s[t].value, Fin(by, 1))]]

TransformNames == {"yoy", "mom_level_k", "level_thous", "level_millions", "level"}

\* Lines 146-158, on the sorted copy s.
transform_rows(s, transform) ==
    dropna(CASE transform = "yoy" -> pct_change(s, YoYLag)
             [] transform = "mom_level_k" -> diff_k(s)
             [] transform = "level_thous" -> scale(s, 1000)
             [] transform = "level_millions" -> scale(s, 1000000)
             [] OTHER -> s)

\* Lines 144-145: the sorted working copies compute_transform can obtain.
sorted_copy(df) == IF df.isNone THEN {<<>>} ELSE sort_values(df.rows)

\* Lines 141-159: the value compute_transform(df, transform) returns when the
\* sort yields s.  The function's own st.cache_data memo (line 140) is keyed
\* by the content of df and by transform, and returns one of the values the
\* body can return for them.
compute_transform(df, transform, s) ==
    IF df.isNone THEN None ELSE DF(transform_rows(s, transform))

\* Variant of input_after_transform: the transform written into df itself.
input_after_transform_inplace(df, transform, s) == compute_transform(df, transform, s)

\* Lines 144-145: the caller's frame df after the call.  The function works
\* on df.copy() and sort_values returns a new frame, so df is as it was.
input_after_transform(df, transform, s) == df

-----------------------------------------------------------------------------
(* Query helpers *)

NoChange == [exc |-> "none", isNone |-> TRUE, val |-> NaN]

\* Python's float division: a zero divisor raises ZeroDivisionError.
\* Lines 95-99.
pct_change_latest(df, periods) ==
    IF df.isNone \/ Empty(df) \/ Len(df.rows) <= periods THEN NoChange
    ELSE LET n == Len(df.rows)
             cur == df.rows[n].value
             ref == df.rows[n - periods].value
         IN  IF IsFinite(ref) /\ ref.n = 0
             THEN [exc |-> "ZeroDivisionError", isNone |-> TRUE, val |-> NaN]
             ELSE [exc |-> "none", isNone |-> FALSE,
                   val |-> FMul(FSub(FDiv(cur, ref), Fin(1, 1)), Fin(100, 1))]

\* Lines 102-106.
latest_value(df) ==
    IF df.isNone \/ Empty(df)
    THEN [isNone |-> TRUE, value |-> NaN, date |-> 0]
    ELSE [isNone |-> FALSE, value |-> df.rows[Len(df.rows)].value,
          date |-> df.rows[Len(df.rows)].date]

-----------------------------------------------------------------------------
(* The responses the pipeline is applied to *)

RECURSIVE SeqsUpTo(_, _)
SeqsUpTo(S, n) ==
    IF n = 0 THEN {<<>>}
    ELSE LET shorter == SeqsUpTo(S, n - 1)
         IN  shorter \cup {Append(s, x) : s \in {q \in shorter : Len(q) = n - 1}, x \in S}

\* Short family: any records, in any order, dates repeated or not.
ShortBodies == SeqsUpTo({Obs(d, tok) : d \in 1..MaxDate, tok \in Tokens}, MaxObs)

\* Long family: n monthly records in date order, all "100", then edited twice.
\* An edit rewrites the value of one record or swaps a record with the next.
BaseBody(n) == [i \in 1..n |-> Obs(i, "100")]

Edits(n) == (1..n) \X (Tokens \cup {"swap"})

Edit(body, e) ==
    LET i == e[1]
    IN  IF e[2] = "swap"
        THEN IF i < Len(body)
             THEN [body EXCEPT ![i] = body[i + 1], ![i + 1] = body[i]]
             ELSE body
        ELSE [body EXCEPT ![i].value = e[2]]

LongBodies ==
    UNION {{Edit(Edit(BaseBody(n), e1), e2) : e1 \in Edits(n), e2 \in Edits(n)}
           : n \in MinLong..MaxLong}

PureResps == FailureResps \cup {OkResp(b) : b \in ShortBodies \cup LongBodies}

-----------------------------------------------------------------------------
(* The indicator registry and the fetch cache *)

Ind(name, id, freq, transform) ==
    [name |-> name, id |-> id, freq |-> freq, transform |-> transform]

\* Lines 118-138, in order.
INDICATORS == <<
    Ind("CPI (YoY, %)", "CPIAUCSL", "m", "yoy"),
    Ind("Core CPI (YoY, %)", "CPILFESL", "m", "yoy"),
    Ind("PCE (YoY, %)", "PCEPI", "m", "yoy"),
    Ind("Core PCE (YoY, %)", "PCEPILFE", "m", "yoy"),
    Ind("PPI All Commodities (YoY, %)", "PPIACO", "m", "yoy"),
    Ind("Nonfarm Payrolls (k, m/m)", "PAYEMS", "m", "mom_level_k"),
    Ind("Unemployment Rate (%)", "UNRATE", "m", "level"),
    Ind("Avg Hourly Earnings (YoY, %)", "CES0500000003", "m", "yoy"),
    Ind("Initial Jobless Claims (thous)", "ICSA", "w", "level_thous"),
    Ind("Job Openings, JOLTS (millions)", "JTSJOL", "m", "level_millions"),
    Ind("Retail Sales (YoY, %)", "RSAFS", "m", "yoy"),
    Ind("ISM Manufacturing PMI", "NAPM", "m", "level"),
    Ind("ISM Services PMI", "NMFBS", "m", "level"),
    Ind("Real GDP (QoQ SAAR, %)", "A191RL1Q225SBEA", "q", "level") >>

\* The script runs of the model iterate a window of the registry.
Registry == SubSeq(INDICATORS, FirstIndicator, FirstIndicator + NumIndicators - 1)

Names == {Registry[i].name : i \in DOMAIN Registry}
RegistryNames == [i \in DOMAIN Registry |-> Registry[i].name]
Meta(name) == CHOOSE r \in {Registry[i] : i \in DOMAIN Registry} : r.name = name

\* st.cache_data keys a call by its arguments (series_id, freq).
KeyOf(name) == <<Meta(name).id, Meta(name).freq>>
Keys == {KeyOf(n) : n \in Names}

NoEntry == [present |-> FALSE, value |-> None, expires |-> 0]
NoFetch == [valid |-> FALSE, at |-> 0, exc |-> "none", ret |-> None]
NoCall == [run |-> 0, phase |-> "", name |-> "", hit |-> FALSE, issued |-> 0,
           at |-> 0]
NoChg == [periods |-> 0, out |-> NoChange]

\* st.cache_data(ttl=60): an entry answers a call until its time to live is over.
cache_hit(entry, t) == entry.present /\ t < entry.expires

\* The entry written when the function body returns v at time t.
cache_entry(v, t) == [present |-> TRUE, value |-> v, expires |-> t + TTL]

-----------------------------------------------------------------------------
(* Spec: the script runs of the dashboard *)

\* Responses served to a script run: records in date order, one per year.
AppTokens == {"0", "100"}
AppBodies ==
    {b \in SeqsUpTo({Obs(d, tok) : d \in 1..MaxAppObs, tok \in AppTokens}, MaxAppObs) :
        \A i \in DOMAIN b : b[i].date = i}
AppResps == FailureResps \cup {OkResp(b) : b \in AppBodies}

\* Values of the multiselect (line 208): registry names, each at most once.
Selections ==
    {s \in SeqsUpTo(Names, NumIndicators) :
        \A i, j \in DOMAIN s : i # j => s[i] # s[j]}

\* Lines 221-222: the rows of the chart window.
chart_window(df, years) ==
    DF(SelectSeq(df.rows, LAMBDA r : r.date >= Today - years))

\* fred_get_series(id, freq) behind st.cache_data, for the indicator `name`,
\* when the network (if asked) answers r.  A hit returns the stored value and
\* asks nothing; a miss runs the body and stores what it returns; a body that
\* raises stores nothing.
Fetched(name, r) ==
    LET k == KeyOf(name)
        hit == cache_hit(cache[k], now)
        out == IF hit THEN [exc |-> "none", ret |-> cache[k].value]
               ELSE fred_request(r)
    IN  [hit |-> hit, out |-> out,
         cache |-> IF hit \/ out.exc # "none" THEN cache
                   ELSE [cache EXCEPT ![k] = cache_entry(out.ret, now)],
         last |-> IF hit THEN last
                  ELSE [last EXCEPT ![k] = [valid |-> TRUE, at |-> now,
                                            exc |-> out.exc, ret |-> out.ret]]]

\* The responses a call can meet: none is asked for on a hit.
Answers(name) ==
    IF cache_hit(cache[KeyOf(name)], now) THEN {resp} ELSE AppResps

\* A script run starts with no locals: nothing of the previous run is kept
\* but the cache.
FreshLocals ==
    /\ call' = NoCall
    /\ prev' = NoFetch
    /\ resp' = TimeoutResp
    /\ raw' = None
    /\ srt' = <<>>
    /\ series' = None
    /\ kind' = "level"
    /\ shown' = None
    /\ chg' = NoChg

\* A browser rerun of the script (lines 13-40), the clear-cache button not pressed.
StartRun ==
    /\ pc \in {"idle", "done", "crashed"}
    /\ runs < MaxRuns
    /\ runs' = runs + 1
    /\ lookback_years' \in {SliderMin, SliderMax}
    /\ todo' = RegistryNames
    /\ cardsDone' = {}
    /\ chartsDone' = {}
    /\ sel' = <<>>
    /\ exc' = "none"
    /\ pc' = "cards"
    /\ FreshLocals
    /\ UNCHANGED <<now, cache, last>>

\* A rerun caused by "Force refresh (clear cache)": lines 38-39, then as StartRun.
ForceRefresh ==
    /\ pc \in {"idle", "done", "crashed"}
    /\ runs < MaxRuns
    /\ runs' = runs + 1
    /\ cache' = [k \in Keys |-> NoEntry]
    /\ last' = [k \in Keys |-> NoFetch]
    /\ lookback_years' \in {SliderMin, SliderMax}
    /\ todo' = RegistryNames
    /\ cardsDone' = {}
    /\ chartsDone' = {}
    /\ sel' = <<>>
    /\ exc' = "none"
    /\ pc' = "cards"
    /\ FreshLocals
    /\ UNCHANGED now

\* card(name, col), lines 180-196, for the next name of the loop at line 199.
\* An exception leaves card and the loop: the script run is over.
Card ==
    /\ pc = "cards"
    /\ todo # <<>>
    /\ LET name == Head(todo)
           meta == Meta(name)
       IN  \E r \in Answers(name) :
             LET f == Fetched(name, r)
             IN  /\ call' = [run |-> runs, phase |-> "card", name |-> name,
                             hit |-> f.hit, issued |-> IF f.hit THEN 0 ELSE 1,
                             at |-> now]
                 /\ prev' = last[KeyOf(name)]
                 /\ resp' = r
                 /\ cache' = f.cache
                 /\ last' = f.last
                 /\ kind' = meta.transform
                 /\ shown' = None
                 /\ IF f.out.exc # "none"
                    THEN /\ exc' = f.out.exc
                         /\ pc' = "crashed"
                         /\ raw' = None
                         /\ srt' = <<>>
                         /\ series' = None
                         /\ chg' = NoChg
                         /\ UNCHANGED <<todo, cardsDone>>
                    ELSE \E s \in sorted_copy(f.out.ret) :
                           LET ser == compute_transform(f.out.ret, meta.transform, s)
                               c == IF meta.transform = "level"
                                    THEN pct_change_latest(ser, 1)
                                    ELSE NoChange
                           IN  /\ raw' = input_after_transform(f.out.ret, meta.transform, s)
                               /\ srt' = s
                               /\ series' = ser
                               /\ chg' = [periods |-> IF meta.transform = "level"
                                                      THEN 1 ELSE 0,
                                          out |-> c]
                               /\ exc' = c.exc
                               /\ IF c.exc # "none"
                                  THEN /\ pc' = "crashed"
                                       /\ UNCHANGED <<todo, cardsDone>>
                                  ELSE /\ pc' = "cards"
                                       /\ todo' = Tail(todo)
                                       /\ cardsDone' = cardsDone \cup {name}
    /\ UNCHANGED <<now, runs, lookback_years, chartsDone, sel>>

\* Lines 208-212: the cards are done, the multiselect gives the names to chart.
BeginCharts ==
    /\ pc = "cards"
    /\ todo = <<>>
    /\ sel' \in Selections
    /\ todo' = sel'
    /\ pc' = "charts"
    /\ UNCHANGED <<now, runs, lookback_years, cache, last, cardsDone, chartsDone,
                   exc, call, prev, resp, raw, srt, series, kind, shown, chg>>

\* One turn of the loop at lines 214-225.
Chart ==
    /\ pc = "charts"
    /\ todo # <<>>
    /\ LET name == Head(todo)
           meta == Meta(name)
       IN  \E r \in Answers(name) :
             LET f == Fetched(name, r)
             IN  /\ call' = [run |-> runs, phase |-> "chart", name |-> name,
                             hit |-> f.hit, issued |-> IF f.hit THEN 0 ELSE 1,
                             at |-> now]
                 /\ prev' = last[KeyOf(name)]
                 /\ resp' = r
                 /\ cache' = f.cache
                 /\ last' = f.last
                 /\ kind' = meta.transform
                 /\ chg' = NoChg
                 /\ exc' = f.out.exc
                 /\ IF f.out.exc # "none"
                    THEN /\ pc' = "crashed"
                         /\ raw' = None
                         /\ srt' = <<>>
                         /\ series' = None
                         /\ shown' = None
                         /\ UNCHANGED <<todo, chartsDone>>
                    ELSE \E s \in sorted_copy(f.out.ret) :
                           LET ser == compute_transform(f.out.ret, meta.transform, s)
                           IN  /\ raw' = input_after_transform(f.out.ret, meta.transform, s)
                               /\ srt' = s
                               /\ series' = ser
                               /\ shown' = IF ser.isNone \/ Empty(ser) THEN None
                                           ELSE chart_window(ser, lookback_years)
                               /\ pc' = "charts"
                               /\ todo' = Tail(todo)
                               /\ chartsDone' = chartsDone \cup {name}
    /\ UNCHANGED <<now, runs, lookback_years, cardsDone, sel>>

\* The loop at line 214 is over; the rest of the script draws no series.
EndRun ==
    /\ pc = "charts"
    /\ todo = <<>>
    /\ pc' = "done"
    /\ UNCHANGED <<now, runs, lookback_years, cache, last, todo, cardsDone,
                   chartsDone, sel, exc, call, prev, resp, raw, srt, series, kind,
                   shown, chg>>

\* Time passes.
Tick ==
    /\ now + TickStep <= MaxTime
    /\ now' = now + TickStep
    /\ UNCHANGED <<runs, lookback_years, cache, last, pc, todo, cardsDone,
                   chartsDone, sel, exc, call, prev, resp, raw, srt, series, kind,
                   shown, chg>>

Init ==
    /\ now = 0
    /\ runs = 0
    /\ lookback_years = SliderMin
    /\ cache = [k \in Keys |-> NoEntry]
    /\ last = [k \in Keys |-> NoFetch]
    /\ pc = "idle"
    /\ todo = <<>>
    /\ cardsDone = {}
    /\ chartsDone = {}
    /\ sel = <<>>
    /\ exc = "none"
    /\ call = NoCall
    /\ prev = NoFetch
    /\ resp = TimeoutResp
    /\ raw = None
    /\ srt = <<>>
    /\ series = None
    /\ kind = "level"
    /\ shown = None
    /\ chg = NoChg

Next == StartRun \/ ForceRefresh \/ Card \/ BeginCharts \/ Chart \/ EndRun \/ Tick

Spec == Init /\ [][Next]_vars

-----------------------------------------------------------------------------
(* SpecPure: the pipeline of one indicator on one response: a fetch, then    *)
(* any number of transform-and-use rounds, each starting with a fetch that  *)
(* the cache answers.                                                       *)

PureName == Registry[1].name
PureKey == KeyOf(PureName)

\* raw = fred_get_series(...), a cache miss: the body runs on the response
PFetch ==
    /\ pc = "p_fetch"
    /\ LET f == Fetched(PureName, resp)
       IN  /\ ~f.hit
           /\ exc' = f.out.exc
           /\ raw' = f.out.ret
           /\ cache' = f.cache
           /\ last' = f.last
           /\ pc' = IF f.out.exc = "none" THEN "p_transform" ELSE "p_raised"
    /\ UNCHANGED <<now, runs, lookback_years, todo, cardsDone, chartsDone, sel,
                   call, prev, resp, srt, series, kind, shown, chg>>

\* series = compute_transform(raw, transform)
PTransform ==
    /\ pc = "p_transform"
    /\ \E t \in TransformNames, s \in sorted_copy(raw) :
         /\ kind' = t
         /\ srt' = s
         /\ series' = compute_transform(raw, t, s)
         /\ raw' = input_after_transform(raw, t, s)
    /\ pc' = "p_use"
    /\ UNCHANGED <<now, runs, lookback_years, cache, last, todo, cardsDone,
                   chartsDone, sel, exc, call, prev, resp, shown, chg>>

\* pct_change_latest(series, periods)
PQuery ==
    /\ pc = "p_use"
    /\ \E periods \in 1..MaxPeriods :
         LET out == pct_change_latest(series, periods)
         IN  /\ chg' = [periods |-> periods, out |-> out]
             /\ exc' = out.exc
             /\ pc' = IF out.exc = "none" THEN "p_done" ELSE "p_raised"
    /\ UNCHANGED <<now, runs, lookback_years, cache, last, todo, cardsDone,
                   chartsDone, sel, call, prev, resp, raw, srt, series, kind,
                   shown>>

\* Lines 218-222: the chart window of a series that has points
PWindow ==
    /\ pc = "p_use"
    /\ ~series.isNone /\ ~Empty(series)
    /\ \E years \in {SliderMin, SliderMax} :
         /\ lookback_years' = years
         /\ shown' = chart_window(series, years)
    /\ pc' = "p_done"
    /\ UNCHANGED <<now, runs, cache, last, todo, cardsDone, chartsDone, sel, exc,
                   call, prev, resp, raw, srt, series, kind, chg>>

\* The next fetch of the same key, within the time to live: a cache hit.
PAgain ==
    /\ pc = "p_done"
    /\ LET f == Fetched(PureName, resp)
       IN  /\ f.hit
           /\ raw' = f.out.ret
           /\ cache' = f.cache
           /\ last' = f.last
    /\ lookback_years' = SliderMin
    /\ srt' = <<>>
    /\ series' = None
    /\ kind' = "level"
    /\ shown' = None
    /\ chg' = NoChg
    /\ pc' = "p_transform"
    /\ UNCHANGED <<now, runs, todo, cardsDone, chartsDone, sel, exc, call, prev,
                   resp>>

InitPure ==
    /\ now = 0
    /\ runs = 0
    /\ lookback_years = SliderMin
    /\ cache = [k \in Keys |-> NoEntry]
    /\ last = [k \in Keys |-> NoFetch]
    /\ pc = "p_fetch"
    /\ todo = <<>>
    /\ cardsDone = {}
    /\ chartsDone = {}
    /\ sel = <<>>
    /\ exc = "none"
    /\ call = NoCall
    /\ prev = NoFetch
    /\ resp \in PureResps
    /\ raw = None
    /\ srt = <<>>
    /\ series = None
    /\ kind = "level"
    /\ shown = None
    /\ chg = NoChg

NextPure == PFetch \/ PTransform \/ PQuery \/ PWindow \/ PAgain

SpecPure == InitPure /\ [][NextPure]_vars

-----------------------------------------------------------------------------
(* Vocabulary of the properties *)

Range(s) == {s[i] : i \in DOMAIN s}
Count(s, x) == Cardinality({i \in DOMAIN s : s[i] = x})

\* The tokens that are the text of a number.
NumericTokens == {"0", "100", "110"}

\* The pipeline's fetch went to the network and returned.
PFetched == last[PureKey].valid /\ last[PureKey].exc = "none"
\* What it returned.
PStored == last[PureKey].ret
\* The response was a success with a parseable body.
PSuccess == resp.net = "ok" /\ resp.status = 200 /\ resp.json
\* compute_transform has returned in this round.
PTransformed == pc \in {"p_use", "p_done"} \/ (pc = "p_raised" /\ chg.periods > 0)
\* pct_change_latest has been called in this round.
PQueried == chg.periods > 0

ValidRecords(body) == SelectSeq(body, LAMBDA o : o.value \in NumericTokens)

DateOrdered(s) == \A i \in 1..(Len(s) - 1) : s[i].date <= s[i + 1].date
SameRows(a, b) ==
    /\ Len(a) = Len(b)
    /\ \A r \in Range(a) \cup Range(b) : Count(a, r) = Count(b, r)

\* The elements of a set of numbers, ascending.
RECURSIVE Ascending(_)
Ascending(S) ==
    IF S = {} THEN <<>>
    ELSE LET m == CHOOSE x \in S : \A y \in S : x <= y
         IN  <<m>> \o Ascending(S \ {m})

\* (cur / ref - 1) * 100 as an exact fraction, ref not zero.
PercentOver(cur, ref) == Fin((cur.n * ref.d - ref.n * cur.d) * 100, ref.n * cur.d)

-----------------------------------------------------------------------------
(* C4 *)

\* C4: year-over-year is a positional lookback of 12 samples in timestamp
\* order.  With s the input in timestamp order and n its length: the output
\* has no point for the first 12 positions of s; for every position t >= 13
\* whose reference s[t-12] is not zero the output has the point of s[t]
\* carrying (s[t]/s[t-12] - 1) * 100; the output's points follow the order of
\* s and are points of positions >= 13 only; and when n < 13 the output is
\* empty.
YoYPositional ==
    (PTransformed /\ kind = "yoy" /\ ~PStored.isNone) =>
        LET n == Len(srt)
            P == {t \in 13..n : srt[t - 12].value.n # 0}
            Z == {t \in 13..n : srt[t - 12].value.n = 0}
        IN  /\ DateOrdered(srt)
            /\ SameRows(srt, PStored.rows)
            /\ ~series.isNone
            /\ n < 13 => series.rows = <<>>
            /\ \E keep \in SUBSET Z :
                 LET pos == Ascending(P \cup keep)
                 IN  /\ Len(series.rows) = Len(pos)
                     /\ \A j \in DOMAIN pos :
                          /\ series.rows[j].date = srt[pos[j]].date
                          /\ series.rows[j].last_updated = srt[pos[j]].last_updated
                          /\ pos[j] \in P =>
                               series.rows[j].value =
                                 PercentOver(srt[pos[j]].value, srt[pos[j] - 12].value)

\* 13 samples, the first 100 and the last 110: one point, 10.0, at sample 13.
YoYPositionalWitness ==
    /\ PTransformed /\ kind = "yoy"
    /\ Len(srt) = 13
    /\ srt[1].value = Fin(100, 1)
    /\ srt[13].value = Fin(110, 1)
    /\ series.rows = <<Row(srt[13].date, Fin(10, 1), RealtimeEnd)>>

-----------------------------------------------------------------------------
(* C5 *)

\* C5: every point of a Derived Series has a finite value, whatever the raw
\* series and the transform: a point whose computed value is not finite is
\* dropped.
DerivedValuesFinite ==
    PTransformed => \A i \in DOMAIN series.rows : IsFinite(series.rows[i].value)

-----------------------------------------------------------------------------
(* C6 *)

-----------------------------------------------------------------------------
(* C7 *)

\* C7: percent change over N periods is "unavailable" when the series has N
\* or fewer points, and is the computed value
\* (value[last] / value[last-N] - 1) * 100 whenever it has at least N+1 points.
PctChangeBoundary ==
    PQueried =>
        LET N == chg.periods
            n == Len(series.rows)
        IN  /\ n <= N => (chg.out.exc = "none" /\ chg.out.isNone)
            /\ n >= N + 1 =>
                 /\ chg.out.exc = "none"
                 /\ ~chg.out.isNone
                 /\ (IsFinite(series.rows[n].value) /\ IsFinite(series.rows[n - N].value)
                     /\ series.rows[n - N].value.n # 0) =>
                        chg.out.val = PercentOver(series.rows[n].value,
                                                  series.rows[n - N].value)

-----------------------------------------------------------------------------
(* C8 *)

\* C8: on a successful response of n records of which k have a value that is
\* not the text of a number, the fetch does not fail and returns exactly the
\* other n-k records, in the order of the response.
PartialParseTolerance ==
    (pc # "p_fetch" /\ PSuccess) =>
        LET body == resp.observations
            valid == ValidRecords(body)
            k == Cardinality({i \in DOMAIN body : body[i].value \notin NumericTokens})
        IN  /\ PFetched
            /\ Len(PStored.rows) = Len(body) - k
            /\ \A i \in DOMAIN valid :
                 /\ PStored.rows[i].date = valid[i].date
                 /\ IsFinite(PStored.rows[i].value)

\* One bad record among nine valid ones: nine points.
PartialParseWitness ==
    /\ pc = "p_transform"
    /\ PSuccess
    /\ Len(resp.observations) = 10
    /\ Len(ValidRecords(resp.observations)) = 9
    /\ Len(raw.rows) = 9

-----------------------------------------------------------------------------
(* C9 *)

AllBad ==
    /\ PSuccess
    /\ resp.observations # <<>>
    /\ ValidRecords(resp.observations) = <<>>

\* C9, as claimed: when every record of a successful response fails to parse,
\* the fetch returns the very result it returns for a response with no
\* observations.
AllBadSameAsNoObservations ==
    (pc # "p_fetch" /\ AllBad) =>
        /\ PFetched
        /\ PStored = fred_request(OkResp(<<>>)).ret

\* C9, amended: when every record of a successful response fails to parse,
\* the fetch returns, without raising, an empty frame (not the None of a
\* response with no observations); the transform of it is an empty frame for
\* every transform, and the helpers find no latest value and no change in it.
AllBadIsEmptyFrame ==
    (pc # "p_fetch" /\ AllBad) =>
        /\ PFetched
        /\ PStored = DF(<<>>)
        /\ PTransformed =>
             /\ series = DF(<<>>)
             /\ latest_value(series).isNone
        /\ PQueried => (chg.out.exc = "none" /\ chg.out.isNone)

AllBadWitness ==
    /\ pc = "p_done"
    /\ AllBad
    /\ Len(resp.observations) >= 2
    /\ PQueried
    /\ raw = DF(<<>>)

-----------------------------------------------------------------------------
(* C10 *)

\* C10: every Raw Series the fetch returns and the cache holds is sorted
\* ascending by timestamp with no timestamp twice, whatever the response.
RawSeriesSortedUnique ==
    PFetched =>
        /\ \A i, j \in DOMAIN PStored.rows :
             i < j => PStored.rows[i].date < PStored.rows[j].date
        /\ cache[PureKey].value = PStored

-----------------------------------------------------------------------------
(* Properties of the script runs *)

\* A fetch call has been made in this script run.
Called == call.run > 0
\* The run is over.
RunOver == pc \in {"done", "crashed"}
\* The name whose step raised, if the run crashed.
Failed == IF pc = "crashed" THEN {call.name} ELSE {}

\* C1: once a fetch for a key has completed (with a series, with "no data",
\* or as a failed fetch), a later fetch for the key before the time to live
\* is over and before any cache clear asks the network nothing and returns
\* the same result; the first fetch after the time to live or after a clear
\* issues exactly one request.
CachedWithinTTL ==
    Called =>
        IF prev.valid /\ call.at < prev.at + TTL
        THEN /\ call.issued = 0
             /\ exc = "none" => raw = prev.ret
        ELSE call.issued = 1

\* The same for the calls that returned a value, a non-success status
\* included: what holds of the cache apart from the calls that raise.
CachedWithinTTLOnceReturned ==
    (Called /\ (prev.valid => prev.exc = "none")) =>
        IF prev.valid /\ call.at < prev.at + TTL
        THEN /\ call.issued = 0
             /\ raw = prev.ret
        ELSE call.issued = 1

\* C2: a failure of one indicator's fetch, transform or query never ends the
\* pass: when the script run is over, every other indicator of the registry
\* has had its card step, and every other selected name its chart step.
FailureContained ==
    RunOver =>
        /\ \A n \in Names \ Failed : n \in cardsDone
        /\ \A n \in Range(sel) \ Failed : n \in chartsDone

\* C3: the fetch ends in "no data", without raising, for a non-success
\* status, for a timeout and for a body that cannot be parsed.
FetchFailureIsNoData ==
    (Called /\ call.issued = 1 /\ resp \in FailureResps) =>
        /\ exc = "none"
        /\ raw = None
        /\ pc # "crashed"

====
